---- MODULE Spec2Model ----
(***************************************************************************)
(* A model of the L* learner of rust_l_star: src/lstar.rs (concat, the     *)
(* oracle queries, fill, make_consistent, make_closed, construct_automaton *)
(* and learn), src/lstar/table.rs (ObservationTable) and src/lstar/dfa.rs  *)
(* (DFA).                                                                  *)
(*                                                                         *)
(* A word is a sequence of symbols (strings); the code writes the empty    *)
(* word as the one-element vector ["ε"].  A Rust Option is a sequence of   *)
(* length 0 (None) or 1 (Some); a Result is a record that says whether it  *)
(* is Ok; a panic (a failed unwrap or assert) ends learn at pc = "abort".  *)
(* A HashSet that the code iterates is a sequence: its iteration order is  *)
(* unspecified, so Init chooses any order.                                 *)
(*                                                                         *)
(* Spec is learn on total targets, AnySpec is learn on targets with or     *)
(* without missing transitions, CallSpec is one call of DFA::run or of     *)
(* concat on arbitrary arguments.                                          *)
(***************************************************************************)
EXTENDS Naturals, Sequences, FiniteSets, TLC

VARIABLES
    target,         \* learn's argument: the DFA to learn
    alphabetOrder,  \* the iteration order of target.get_alphabet()
    rows,           \* table.rows
    columns,        \* table.columns
    cells,          \* table.cells: (prefix, suffix) -> bool, a partial map
    hypothesis,     \* the DFA built by the last construct_automaton
    ce,             \* the Option returned by the last equivalence_query
    unfilled_cell,  \* fill's local list, as left by the last call of fill
    pc,             \* learn's position
    call            \* a call of one function by itself: arguments and result

vars == <<target, alphabetOrder, rows, columns, cells, hypothesis, ce,
          unfilled_cell, pc, call>>

(***************************************************************************)
(* Bounds of the model: the sizes of the targets Init draws.               *)
(***************************************************************************)
MaxUnaryStates == 5

MaxBinaryStates == 2

(***************************************************************************)
(* Generic helpers.                                                        *)
(***************************************************************************)
Range(s) == {s[i] : i \in DOMAIN s}

Contains(s, x) == \E i \in DOMAIN s : s[i] = x

Min(S) == CHOOSE x \in S : \A y \in S : x <= y

Orders(S) == {s \in [1..Cardinality(S) -> S] : Range(s) = S}

(***************************************************************************)
(* src/lstar.rs: words.                                                    *)
(***************************************************************************)
Epsilon == "ε"

EmptyWord == <<Epsilon>>

\* A concat without the branch for a second argument that is the empty word.
concatLeftOnly(a, b) == IF a = <<Epsilon>> THEN b ELSE a \o b

concat(a, b) ==
    IF a = <<Epsilon>> /\ b = <<Epsilon>> THEN <<Epsilon>>
    ELSE IF a = <<Epsilon>> THEN b
    ELSE IF b = <<Epsilon>> THEN a
    ELSE a \o b

(***************************************************************************)
(* src/lstar/dfa.rs: DFA.                                                  *)
(* DFA::new takes the transitions as a vector of ((state, symbol), next)   *)
(* and inserts them into a HashMap in order: a later triple with the same  *)
(* key replaces an earlier one.  States and alphabet are derived from the  *)
(* map.                                                                    *)
(***************************************************************************)
TransitionTable(transitions) ==
    LET keys == {transitions[i][1] : i \in DOMAIN transitions}
        last(k) == CHOOSE i \in DOMAIN transitions :
                      /\ transitions[i][1] = k
                      /\ \A j \in DOMAIN transitions :
                            transitions[j][1] = k => j <= i
    IN  [k \in keys |-> transitions[last(k)][2]]

DFANew(transitions, init_state, final_states) ==
    LET transition_table == TransitionTable(transitions)
    IN  [states |-> {k[1] : k \in DOMAIN transition_table}
                    \cup Range(transition_table) \cup {init_state},
         alphabet |-> {k[2] : k \in DOMAIN transition_table},
         init_state |-> init_state,
         transitions |-> transition_table,
         final_states |-> final_states]

\* The value of a Result<bool, String>, or the panic of the unwrap at dfa.rs:66.
\* The text of an Err names the offending symbol.
OkResult(b) == [kind |-> "Ok", value |-> b, symbol |-> ""]

ErrResult(i) == [kind |-> "Err", value |-> FALSE, symbol |-> i]

PanicResult == [kind |-> "panic", value |-> FALSE, symbol |-> ""]

RECURSIVE RunFrom(_, _, _, _)
RunFrom(dfa, state, input, i) ==
    IF i > Len(input) THEN OkResult(state \in dfa.final_states)
    ELSE IF input[i] \notin dfa.alphabet /\ input[i] # Epsilon THEN ErrResult(input[i])
    ELSE IF input[i] = Epsilon THEN RunFrom(dfa, state, input, i + 1)
    ELSE IF <<state, input[i]>> \notin DOMAIN dfa.transitions THEN PanicResult
    ELSE RunFrom(dfa, dfa.transitions[<<state, input[i]>>], input, i + 1)

Run(dfa, input) == RunFrom(dfa, dfa.init_state, input, 1)

StatesSize(dfa) == Cardinality(dfa.states)

(***************************************************************************)
(* src/lstar/table.rs: ObservationTable.                                   *)
(***************************************************************************)
\* A test that never finds a cell.
IsFilledNever(cs, row, column) == FALSE

IsFilled(cs, row, column) == <<row, column>> \in DOMAIN cs

GetCell(cs, prefix, suffix) ==
    IF <<prefix, suffix>> \in DOMAIN cs THEN <<cs[<<prefix, suffix>>]>> ELSE <<>>

\* Result<Vec<bool>, String>: the Err's text names the prefix and the first
\* column without a cell.
GetValue(cols, cs, prefix) ==
    LET missing == {i \in DOMAIN cols : ~IsFilled(cs, prefix, cols[i])}
    IN  IF missing = {}
        THEN [ok |-> TRUE,
              v |-> [i \in DOMAIN cols |-> cs[<<prefix, cols[i]>>]],
              err |-> <<>>]
        ELSE [ok |-> FALSE, v |-> <<>>, err |-> <<prefix, cols[Min(missing)]>>]

\* A State is a String of the characters '1' and '0': a sequence of characters.
VecboolToState(vb) == [i \in DOMAIN vb |-> IF vb[i] THEN "1" ELSE "0"]

\* Result<State, String>.
GetValueAsState(cols, cs, prefix) ==
    LET value == GetValue(cols, cs, prefix)
    IN  IF value.ok THEN [ok |-> TRUE, v |-> VecboolToState(value.v)]
        ELSE [ok |-> FALSE, v |-> <<>>]

\* An insert under the key of the row and the first column, whatever the column.
FillCellInFirstColumn(cs, row, column, value) ==
    [k \in DOMAIN cs \cup {<<row, EmptyWord>>} |->
        IF k = <<row, EmptyWord>> THEN value ELSE cs[k]]

FillCell(cs, row, column, value) ==
    [k \in DOMAIN cs \cup {<<row, column>>} |->
        IF k = <<row, column>> THEN value ELSE cs[k]]

\* A push without the test for a row that is there already.
AddRowsAlways(rs, prefix) == Append(rs, prefix)

AddRows(rs, prefix) == IF Contains(rs, prefix) THEN rs ELSE Append(rs, prefix)

\* An insert at the front instead of a push at the back.
AddColumnsInFront(cols, suffix) ==
    IF Contains(cols, suffix) THEN cols ELSE <<suffix>> \o cols

AddColumns(cols, suffix) ==
    IF Contains(cols, suffix) THEN cols ELSE Append(cols, suffix)

\* Result<Vec<State>, String>.
GetStates(rs, cols, cs) ==
    IF \A i \in DOMAIN rs : GetValue(cols, cs, rs[i]).ok
    THEN [ok |-> TRUE,
          v |-> [i \in DOMAIN rs |-> VecboolToState(GetValue(cols, cs, rs[i]).v)]]
    ELSE [ok |-> FALSE, v |-> <<>>]

(***************************************************************************)
(* src/lstar.rs: the oracle.                                               *)
(***************************************************************************)
\* An answer for the word without its last symbol (a slice one too short).
MembershipQueryShort(input) == Run(target, SubSeq(input, 1, Len(input) - 1))

MembershipQuery(input) == Run(target, input)

\* A bound taken from the wrong getter: the size of the alphabet.
MaxLengthOfAlphabet == Cardinality(target.alphabet) + 1

MaxLength == StatesSize(target) + 1

\* The words pushed for a dequeued word, in the alphabet's iteration order.
Extensions(word) ==
    IF Len(word) < MaxLength
    THEN [k \in DOMAIN alphabetOrder |-> concat(word, <<alphabetOrder[k]>>)]
    ELSE <<>>

\* A loop that pushes the extensions at the front of the queue (a stack: the
\* words are met depth-first).
RECURSIVE EquivalenceLoopDepthFirst(_, _)
EquivalenceLoopDepthFirst(hypo, queue) ==
    IF queue = <<>> THEN [kind |-> "None", word |-> <<>>]
    ELSE LET word == Head(queue)
             t == Run(target, word)
             h == Run(hypo, word)
         IN  IF t.kind = "panic" \/ h.kind = "panic"
             THEN [kind |-> "panic", word |-> word]
             ELSE IF t # h THEN [kind |-> "Some", word |-> word]
             ELSE EquivalenceLoopDepthFirst(hypo, Extensions(word) \o Tail(queue))

\* The while loop of equivalence_query on the given queue.  Comparing the two
\* results needs both runs to return: a panic of either run is a panic here.
RECURSIVE EquivalenceLoop(_, _)
EquivalenceLoop(hypo, queue) ==
    IF queue = <<>> THEN [kind |-> "None", word |-> <<>>]
    ELSE LET word == Head(queue)
             t == Run(target, word)
             h == Run(hypo, word)
         IN  IF t.kind = "panic" \/ h.kind = "panic"
             THEN [kind |-> "panic", word |-> word]
             ELSE IF t # h THEN [kind |-> "Some", word |-> word]
             ELSE EquivalenceLoop(hypo, Tail(queue) \o Extensions(word))

EquivalenceQuery(hypo) == EquivalenceLoop(hypo, <<EmptyWord>>)

(***************************************************************************)
(* src/lstar.rs: fill.                                                     *)
(***************************************************************************)
\* What one pass of the innermost loop body pushes, for rs[i], cols[j] and the
\* k-th symbol.  The table is not written while the list is collected.
Pushed(rs, cols, cs, i, j, k) ==
    LET row == rs[i]
        column == cols[j]
        ra == concat(row, <<alphabetOrder[k]>>)
    IN  (IF ~IsFilled(cs, row, column) THEN <<<<row, column>>>> ELSE <<>>)
        \o (IF ~IsFilled(cs, ra, column) THEN <<<<ra, column>>>> ELSE <<>>)

\* The list after the first n passes of the loop body, the loops being over
\* rows, then columns, then the alphabet.
RECURSIVE UnfilledUpTo(_, _, _, _)
UnfilledUpTo(rs, cols, cs, n) ==
    IF n = 0 THEN <<>>
    ELSE LET A == Len(alphabetOrder)
             C == Len(cols)
             m == n - 1
         IN  UnfilledUpTo(rs, cols, cs, m)
             \o Pushed(rs, cols, cs, (m \div (A * C)) + 1,
                       ((m \div A) % C) + 1, (m % A) + 1)

UnfilledCells(rs, cols, cs) ==
    UnfilledUpTo(rs, cols, cs, Len(rs) * Len(cols) * Len(alphabetOrder))

\* The second loop of fill: one membership query and one fill_cell per entry.
RECURSIVE FillFrom(_, _, _)
FillFrom(cs, unfilled, i) ==
    IF i > Len(unfilled) THEN cs
    ELSE LET r == unfilled[i][1]
             c == unfilled[i][2]
         IN  FillFrom(FillCell(cs, r, c, MembershipQuery(concat(r, c)).value),
                      unfilled, i + 1)

\* fill: the list it collected, the cells it leaves, and whether an unwrap of
\* a membership query panicked.
Fill(rs, cols, cs) ==
    LET unfilled == UnfilledCells(rs, cols, cs)
        panic == \E i \in DOMAIN unfilled :
                    MembershipQuery(concat(unfilled[i][1], unfilled[i][2])).kind # "Ok"
    IN  [panic |-> panic,
         unfilled |-> unfilled,
         cells |-> IF panic THEN cs ELSE FillFrom(cs, unfilled, 1)]

(***************************************************************************)
(* src/lstar.rs: make_consistent.                                          *)
(***************************************************************************)
\* The position of (i, j, k, l) in the scan: rows s1, rows s2, alphabet, columns.
ScanRank(rs, cols, i, j, k, l) ==
    ((((i - 1) * Len(rs) + (j - 1)) * Len(alphabetOrder)) + (k - 1)) * Len(cols)
    + (l - 1)

\* A scan that looks at the first symbol of the alphabet only.
InconsistenciesFirstSymbol(rs, cols, cs) ==
    {q \in (DOMAIN rs) \X (DOMAIN rs) \X (DOMAIN alphabetOrder \cap {1}) \X (DOMAIN cols) :
        /\ GetValue(cols, cs, rs[q[1]]) = GetValue(cols, cs, rs[q[2]])
        /\ GetCell(cs, concat(rs[q[1]], <<alphabetOrder[q[3]]>>), cols[q[4]])
           # GetCell(cs, concat(rs[q[2]], <<alphabetOrder[q[3]]>>), cols[q[4]])}

\* The places (s1, s2, a, e) where the condition of lines 117 and 120 holds.
Inconsistencies(rs, cols, cs) ==
    {q \in (DOMAIN rs) \X (DOMAIN rs) \X (DOMAIN alphabetOrder) \X (DOMAIN cols) :
        /\ GetValue(cols, cs, rs[q[1]]) = GetValue(cols, cs, rs[q[2]])
        /\ GetCell(cs, concat(rs[q[1]], <<alphabetOrder[q[3]]>>), cols[q[4]])
           # GetCell(cs, concat(rs[q[2]], <<alphabetOrder[q[3]]>>), cols[q[4]])}

\* The first of them the scan meets.
FirstInconsistency(rs, cols, cs) ==
    LET found == Inconsistencies(rs, cols, cs)
    IN  CHOOSE q \in found :
            \A r \in found : ScanRank(rs, cols, q[1], q[2], q[3], q[4])
                             <= ScanRank(rs, cols, r[1], r[2], r[3], r[4])

\* The column a.e that line 125 adds for it.
NewColumn(rs, cols, cs) ==
    LET q == FirstInconsistency(rs, cols, cs)
    IN  concat(<<alphabetOrder[q[3]]>>, cols[q[4]])

(***************************************************************************)
(* src/lstar.rs: make_closed.                                              *)
(***************************************************************************)
\* A scan that looks at the first symbol of the alphabet only.
UnclosedFirstSymbol(rs, cols, cs, states) ==
    {q \in (DOMAIN rs) \X (DOMAIN alphabetOrder \cap {1}) :
        LET st == GetValueAsState(cols, cs, concat(rs[q[1]], <<alphabetOrder[q[2]]>>))
        IN  ~st.ok \/ ~Contains(states, st.v)}

\* The places (s, a) where the scan of lines 151-163 stops: the unwrap of line
\* 155 panics, or the state of s.a is not in states.
Unclosed(rs, cols, cs, states) ==
    {q \in (DOMAIN rs) \X (DOMAIN alphabetOrder) :
        LET st == GetValueAsState(cols, cs, concat(rs[q[1]], <<alphabetOrder[q[2]]>>))
        IN  ~st.ok \/ ~Contains(states, st.v)}

FirstUnclosed(rs, cols, cs, states) ==
    LET found == Unclosed(rs, cols, cs, states)
    IN  CHOOSE q \in found :
            \A r \in found : (q[1] - 1) * Len(alphabetOrder) + q[2]
                             <= (r[1] - 1) * Len(alphabetOrder) + r[2]

\* One pass of the while loop of make_closed: kind is "panic" (an unwrap
\* failed), "closed" (the scan found nothing) or "repair" (a row was added and
\* the table filled).
MakeClosedPass(rs, cols, cs, lastUnfilled) ==
    LET first == GetStates(rs, cols, cs)
        refill == IF first.ok
                  THEN [panic |-> FALSE, unfilled |-> lastUnfilled, cells |-> cs]
                  ELSE Fill(rs, cols, cs)
        cs1 == refill.cells
        states == GetStates(rs, cols, cs1)
        same == [kind |-> "closed", rows |-> rs, cells |-> cs1,
                 unfilled |-> refill.unfilled]
    IN  IF refill.panic \/ ~states.ok THEN [same EXCEPT !.kind = "panic"]
        ELSE IF Unclosed(rs, cols, cs1, states.v) = {} THEN same
        ELSE LET q == FirstUnclosed(rs, cols, cs1, states.v)
                 sa == concat(rs[q[1]], <<alphabetOrder[q[2]]>>)
                 rs1 == AddRows(rs, sa)
                 filled == Fill(rs1, cols, cs1)
             IN  IF ~GetValueAsState(cols, cs1, sa).ok
                 THEN [same EXCEPT !.kind = "panic"]
                 ELSE [kind |-> IF filled.panic THEN "panic" ELSE "repair",
                       rows |-> rs1, cells |-> filled.cells,
                       unfilled |-> filled.unfilled]

(***************************************************************************)
(* src/lstar.rs: construct_automaton.                                      *)
(***************************************************************************)
\* A vector without the entries of the last row (a loop that stops one short).
TransitionFunctionButLastRow(rs, cols, cs) ==
    [n \in 1..((Len(rs) - 1) * Len(alphabetOrder)) |->
        LET prefix == rs[((n - 1) \div Len(alphabetOrder)) + 1]
            a == alphabetOrder[((n - 1) % Len(alphabetOrder)) + 1]
        IN  <<<<GetValueAsState(cols, cs, prefix).v, a>>,
              GetValueAsState(cols, cs, concat(prefix, <<a>>)).v>>]

\* The vector transition_function: for each row, for each symbol.
TransitionFunction(rs, cols, cs) ==
    [n \in 1..(Len(rs) * Len(alphabetOrder)) |->
        LET prefix == rs[((n - 1) \div Len(alphabetOrder)) + 1]
            a == alphabetOrder[((n - 1) % Len(alphabetOrder)) + 1]
        IN  <<<<GetValueAsState(cols, cs, prefix).v, a>>,
              GetValueAsState(cols, cs, concat(prefix, <<a>>)).v>>]

\* Whether an unwrap or the assert of construct_automaton panics.
ConstructPanics(rs, cols, cs) ==
    \/ ~GetStates(rs, cols, cs).ok
    \/ ~GetValueAsState(cols, cs, EmptyWord).ok
    \/ \E i \in DOMAIN rs : \E k \in DOMAIN alphabetOrder :
          \/ ~GetValueAsState(cols, cs, rs[i]).ok
          \/ ~GetValueAsState(cols, cs, concat(rs[i], <<alphabetOrder[k]>>)).ok
    \/ cols = <<>>
    \/ cols[1] # EmptyWord

\* Final states read off the last column instead of the first.
ConstructAutomatonLastColumn(rs, cols, cs) ==
    LET states == GetStates(rs, cols, cs).v
        final_states == {states[i] : i \in {j \in DOMAIN states :
                            states[j] # <<>> /\ states[j][Len(states[j])] = "1"}}
    IN  DFANew(TransitionFunction(rs, cols, cs),
               GetValueAsState(cols, cs, EmptyWord).v,
               final_states)

ConstructAutomaton(rs, cols, cs) ==
    LET states == GetStates(rs, cols, cs).v
        final_states == {states[i] : i \in {j \in DOMAIN states :
                            states[j] # <<>> /\ states[j][1] = "1"}}
    IN  DFANew(TransitionFunction(rs, cols, cs),
               GetValueAsState(cols, cs, EmptyWord).v,
               final_states)

\* Lines 182-184: every non-empty prefix of the counterexample, from the
\* shortest, is added as a row.
\* A loop that stops before the whole word: the proper prefixes only.
RECURSIVE AddProperPrefixes(_, _, _)
AddProperPrefixes(rs, word, i) ==
    IF i >= Len(word) THEN rs
    ELSE AddProperPrefixes(AddRows(rs, SubSeq(word, 1, i)), word, i + 1)

RECURSIVE AddPrefixes(_, _, _)
AddPrefixes(rs, word, i) ==
    IF i > Len(word) THEN rs
    ELSE AddPrefixes(AddRows(rs, SubSeq(word, 1, i)), word, i + 1)

(***************************************************************************)
(* The targets learn is run on.  Every one is a total acceptor.            *)
(***************************************************************************)
\* src/lstar.rs:199-210 (and src/main.rs:5-16): the target of test_l_star.
\* A state is an opaque identifier; the states "[ε]", "[b]" and "[ba]" are
\* written 1, 2 and 3, like the states of the other targets.
TestTarget ==
    DFANew(<< <<<<1, "a">>, 1>>, <<<<1, "b">>, 2>>,
              <<<<2, "a">>, 3>>, <<<<2, "b">>, 2>>,
              <<<<3, "a">>, 3>>, <<<<3, "b">>, 3>> >>,
           1, {2})

\* The acceptors without any transition: one state, the empty alphabet.
EmptyAlphabetTargets == {DFANew(<<>>, 1, F) : F \in SUBSET {1}}

\* Over the alphabet {a}: states 1..n in a line, the last one leading back to
\* some state (every unary acceptor whose states are all reachable has this
\* shape).
UnaryTargets ==
    UNION {{DFANew([i \in 1..n |-> <<<<i, "a">>, IF i < n THEN i + 1 ELSE back>>],
                   1, F) : back \in 1..n, F \in SUBSET (1..n)}
           : n \in 1..MaxUnaryStates}

\* Over the alphabet {a, b}: every total transition function on states 1..n.
BinaryTargets ==
    UNION {{DFANew([i \in 1..(2 * n) |->
                      IF i <= n THEN <<<<i, "a">>, da[i]>>
                      ELSE <<<<i - n, "b">>, db[i - n]>>],
                   1, F) : da \in [1..n -> 1..n], db \in [1..n -> 1..n],
                           F \in SUBSET (1..n)}
           : n \in 1..MaxBinaryStates}

Targets == {TestTarget} \cup EmptyAlphabetTargets \cup UnaryTargets \cup BinaryTargets

\* No automaton built yet.
NoHypothesis == DFANew(<<>>, <<>>, {})

\* No function is called by itself: learn runs.
NoCall == [fn |-> "learn", dfa |-> NoHypothesis, words |-> <<>>,
           returned |-> FALSE, result |-> <<>>]

(***************************************************************************)
(* src/lstar.rs: learn.                                                    *)
(***************************************************************************)
Init ==
    /\ target \in Targets
    /\ alphabetOrder \in Orders(target.alphabet)
    /\ rows = <<EmptyWord>>
    /\ columns = <<EmptyWord>>
    /\ cells = [k \in {} |-> FALSE]
    /\ hypothesis = NoHypothesis
    /\ ce = <<>>
    /\ unfilled_cell = <<>>
    /\ pc = "start"
    /\ call = NoCall

\* Lines 169-170: the new table and the first fill.
InitialFill ==
    /\ pc = "start"
    /\ LET filled == Fill(rows, columns, cells)
       IN  /\ cells' = filled.cells
           /\ unfilled_cell' = filled.unfilled
           /\ pc' = IF filled.panic THEN "abort" ELSE "make_consistent"
    /\ UNCHANGED <<target, alphabetOrder, rows, columns, hypothesis, ce, call>>

\* One pass of the while loop of make_consistent that finds an inconsistency:
\* add the column, fill, scan again.
MakeConsistentRepair ==
    /\ pc = "make_consistent"
    /\ Inconsistencies(rows, columns, cells) # {}
    /\ LET cols1 == AddColumns(columns, NewColumn(rows, columns, cells))
           filled == Fill(rows, cols1, cells)
       IN  /\ columns' = cols1
           /\ cells' = filled.cells
           /\ unfilled_cell' = filled.unfilled
           /\ pc' = IF filled.panic THEN "abort" ELSE "make_consistent"
    /\ UNCHANGED <<target, alphabetOrder, rows, hypothesis, ce, call>>

\* The pass that finds none: make_consistent returns.
MakeConsistentReturn ==
    /\ pc = "make_consistent"
    /\ Inconsistencies(rows, columns, cells) = {}
    /\ pc' = "make_closed"
    /\ UNCHANGED <<target, alphabetOrder, rows, columns, cells, hypothesis, ce,
                   unfilled_cell, call>>

\* One pass of the while loop of make_closed that adds a row.
MakeClosedRepair ==
    /\ pc = "make_closed"
    /\ LET pass == MakeClosedPass(rows, columns, cells, unfilled_cell)
       IN  /\ pass.kind = "repair"
           /\ rows' = pass.rows
           /\ cells' = pass.cells
           /\ unfilled_cell' = pass.unfilled
    /\ UNCHANGED <<target, alphabetOrder, columns, hypothesis, ce, pc, call>>

\* The pass that finds the table closed: make_closed returns.
MakeClosedReturn ==
    /\ pc = "make_closed"
    /\ LET pass == MakeClosedPass(rows, columns, cells, unfilled_cell)
       IN  /\ pass.kind = "closed"
           /\ cells' = pass.cells
           /\ unfilled_cell' = pass.unfilled
    /\ pc' = "equivalence_query"
    /\ UNCHANGED <<target, alphabetOrder, rows, columns, hypothesis, ce, call>>

\* A pass in which an unwrap of make_closed (lines 147, 155) or of the fill it
\* calls panics.
MakeClosedPanic ==
    /\ pc = "make_closed"
    /\ LET pass == MakeClosedPass(rows, columns, cells, unfilled_cell)
       IN  /\ pass.kind = "panic"
           /\ cells' = pass.cells
           /\ unfilled_cell' = pass.unfilled
    /\ pc' = "abort"
    /\ UNCHANGED <<target, alphabetOrder, rows, columns, hypothesis, ce, call>>

\* Lines 177-186: the automaton of the table is built and compared with the
\* target; a counterexample's prefixes become rows and the table is filled.
Refine ==
    /\ pc = "equivalence_query"
    /\ IF ConstructPanics(rows, columns, cells)
       THEN /\ pc' = "abort"
            /\ UNCHANGED <<rows, cells, hypothesis, ce, unfilled_cell>>
       ELSE LET hypo == ConstructAutomaton(rows, columns, cells)
                answer == EquivalenceQuery(hypo)
                word == answer.word
                rs1 == AddPrefixes(rows, word, 1)
                filled == Fill(rs1, columns, cells)
            IN  /\ answer.kind # "None"
                /\ hypothesis' = hypo
                /\ IF answer.kind = "panic"
                   THEN /\ pc' = "abort"
                        /\ UNCHANGED <<rows, cells, ce, unfilled_cell>>
                   ELSE /\ ce' = <<word>>
                        /\ rows' = rs1
                        /\ cells' = filled.cells
                        /\ unfilled_cell' = filled.unfilled
                        /\ pc' = IF filled.panic THEN "abort" ELSE "make_consistent"
    /\ UNCHANGED <<target, alphabetOrder, columns, call>>

\* Lines 177-192: no counterexample; the loop is left and the automaton of the
\* table is built again and returned.
Return ==
    /\ pc = "equivalence_query"
    /\ ~ConstructPanics(rows, columns, cells)
    /\ LET hypo == ConstructAutomaton(rows, columns, cells)
       IN  /\ EquivalenceQuery(hypo).kind = "None"
           /\ hypothesis' = hypo
    /\ ce' = <<>>
    /\ pc' = "done"
    /\ UNCHANGED <<target, alphabetOrder, rows, columns, cells, unfilled_cell, call>>

Next ==
    \/ InitialFill
    \/ MakeConsistentRepair
    \/ MakeConsistentReturn
    \/ MakeClosedRepair
    \/ MakeClosedReturn
    \/ MakeClosedPanic
    \/ Refine
    \/ Return

Spec == Init /\ [][Next]_vars

(***************************************************************************)
(* learn on any acceptor DFA::new builds: the total targets above and the  *)
(* targets with a missing transition.                                      *)
(***************************************************************************)
IsTotal(dfa) ==
    \A q \in dfa.states : \A a \in dfa.alphabet : <<q, a>> \in DOMAIN dfa.transitions

\* Over the symbols a and b and states 1..n: every choice, for each (state,
\* symbol), of no triple (0) or of a triple leading to a state, that leaves
\* some transition of the acceptor undefined.
PartialTargets ==
    UNION {{d \in {DFANew(LET triples == [i \in 1..(2 * n) |->
                                  IF i <= n THEN <<<<i, "a">>, f[i]>>
                                  ELSE <<<<i - n, "b">>, f[i]>>]
                              Present(t) == t[2] # 0
                          IN  SelectSeq(triples, Present),
                          1, F) : f \in [1..(2 * n) -> 0..n], F \in SUBSET (1..n)} :
               ~IsTotal(d)}
           : n \in 1..MaxBinaryStates}

AnyInit ==
    /\ target \in Targets \cup PartialTargets
    /\ alphabetOrder \in Orders(target.alphabet)
    /\ rows = <<EmptyWord>>
    /\ columns = <<EmptyWord>>
    /\ cells = [k \in {} |-> FALSE]
    /\ hypothesis = NoHypothesis
    /\ ce = <<>>
    /\ unfilled_cell = <<>>
    /\ pc = "start"
    /\ call = NoCall

AnySpec == AnyInit /\ [][Next]_vars

(***************************************************************************)
(* A second specification: one call of DFA::run or of concat by itself, on *)
(* arguments learn does not pass (words with a symbol outside the          *)
(* alphabet, acceptors with missing transitions or with a symbol spelled   *)
(* "ε").  Init draws the arguments; the action is the call.                *)
(***************************************************************************)
MaxWordLen == 3

\* A symbol of the acceptors below, a symbol of none of them, and "ε".
CallSymbols == {"a", "z", Epsilon}

\* The vectors of symbols of length 0 to MaxWordLen; the vector of length 0
\* is one of them.
CallWords == UNION {[1..k -> CallSymbols] : k \in 0..MaxWordLen}

CallKeys == << <<1, "a">>, <<1, Epsilon>>, <<2, "a">>, <<2, Epsilon>> >>

\* Every acceptor DFA::new builds from triples over the keys above, a key
\* being absent (0) or leading to state 1 or 2; the initial state is 1.
CallDFAs ==
    {DFANew(LET triples == [i \in DOMAIN CallKeys |-> <<CallKeys[i], f[i]>>]
                Present(t) == t[2] # 0
            IN  SelectSeq(triples, Present),
            1, F) : f \in [DOMAIN CallKeys -> 0..2], F \in SUBSET {1, 2}}

CallInit ==
    /\ target = NoHypothesis
    /\ alphabetOrder = <<>>
    /\ rows = <<EmptyWord>>
    /\ columns = <<EmptyWord>>
    /\ cells = [k \in {} |-> FALSE]
    /\ hypothesis = NoHypothesis
    /\ ce = <<>>
    /\ unfilled_cell = <<>>
    /\ pc = "call"
    /\ \/ \E d \in CallDFAs : \E w \in CallWords :
             call = [fn |-> "run", dfa |-> d, words |-> <<w>>,
                     returned |-> FALSE, result |-> <<>>]
       \/ \E a \in CallWords : \E b \in CallWords :
             call = [fn |-> "concat", dfa |-> NoHypothesis, words |-> <<a, b>>,
                     returned |-> FALSE, result |-> <<>>]

\* dfa.run(input).
CallRun ==
    /\ pc = "call"
    /\ call.fn = "run"
    /\ ~call.returned
    /\ call' = [call EXCEPT !.returned = TRUE,
                            !.result = Run(call.dfa, call.words[1])]
    /\ UNCHANGED <<target, alphabetOrder, rows, columns, cells, hypothesis, ce,
                   unfilled_cell, pc>>

\* concat(a, b).
CallConcat ==
    /\ pc = "call"
    /\ call.fn = "concat"
    /\ ~call.returned
    /\ call' = [call EXCEPT !.returned = TRUE,
                            !.result = concat(call.words[1], call.words[2])]
    /\ UNCHANGED <<target, alphabetOrder, rows, columns, cells, hypothesis, ce,
                   unfilled_cell, pc>>

CallNext ==
    \/ CallRun
    \/ CallConcat

CallSpec == CallInit /\ [][CallNext]_vars

(***************************************************************************)
(* Notions the properties below are stated with.  They are written from    *)
(* their definitions, not from the learner's scans.                        *)
(***************************************************************************)
\* The words over the target's alphabet of length 0 to n, the empty word
\* being written as the code writes it.
WordsUpTo(n) ==
    {EmptyWord} \cup UNION {[1..k -> target.alphabet] : k \in 1..n}

\* The pairs (target state, hypothesis state) reached by one same word.
RECURSIVE ProductReach(_, _)
ProductReach(hypo, seen) ==
    LET next == {<<target.transitions[<<p[1], a>>], hypo.transitions[<<p[2], a>>]>> :
                    p \in seen, a \in target.alphabet}
    IN  IF next \subseteq seen THEN seen ELSE ProductReach(hypo, seen \cup next)

Equivalent(hypo) ==
    \A p \in ProductReach(hypo, {<<target.init_state, hypo.init_state>>}) :
        (p[1] \in target.final_states) <=> (p[2] \in hypo.final_states)

\* The signature of a word whose cells are all filled.
Signature(w) == [i \in DOMAIN columns |-> cells[<<w, columns[i]>>]]

\* The words the table has a row or a boundary entry for.
RowWords == Range(rows)

BoundaryWords == {concat(r, <<a>>) : r \in RowWords, a \in target.alphabet}

Saturated ==
    \A w \in RowWords \cup BoundaryWords : \A c \in Range(columns) :
        <<w, c>> \in DOMAIN cells

(***************************************************************************)
(* C1: for every finite target acceptor learn(target) terminates: the loop *)
(* of learn is left after finitely many passes and a hypothesis and the    *)
(* table are returned, without a panic and without an endless loop.        *)
(* Stated as what a finite run refutes: no run of learn ends in a panic    *)
(* (a run that has panicked never returns).  It fails: on a target without *)
(* transitions (empty alphabet) fill pushes nothing, no cell is ever       *)
(* filled and the unwrap of line 147 panics.                               *)
(***************************************************************************)
C1_LearnTerminates == pc # "abort"

(***************************************************************************)
(* C2: the hypothesis learn returns agrees with the target on every word   *)
(* over the target's alphabet of length 0 to (number of target states + 1);*)
(* equivalently, equivalence_query on it returns no counterexample.        *)
(***************************************************************************)
C2_AgreesUpToBound ==
    pc = "done" =>
        /\ \A w \in WordsUpTo(Cardinality(target.states) + 1) :
              Run(target, w) = Run(hypothesis, w)
        /\ EquivalenceQuery(hypothesis).kind = "None"

\* learn has returned after at least one counterexample made it add a column.
C2_Witness ==
    /\ pc = "done"
    /\ Len(columns) > 1
    /\ Cardinality(hypothesis.states) >= 3

(***************************************************************************)
(* C3: the acceptor learn returns is equivalent to the target: no pair of  *)
(* states reachable in the product of the two disagrees on acceptance.     *)
(* It fails: equivalence_query looks at words of length at most (number of *)
(* target states + 1) only.  For the target over {a} whose five states     *)
(* form a cycle, with the state reached by aaa accepting, learn returns a  *)
(* cycle of four states, which differs from the target on a^7.             *)
(***************************************************************************)
C3_EquivalentToTarget == pc = "done" => Equivalent(hypothesis)

(***************************************************************************)
(* C4: the acceptor learn returns has no more states (distinct row         *)
(* signatures of the final table) than the target, and neither has any     *)
(* hypothesis passed to equivalence_query during the run.                  *)
(***************************************************************************)
C4_HypothesisNotLarger ==
    /\ hypothesis # NoHypothesis =>
          Cardinality(hypothesis.states) <= Cardinality(target.states)
    /\ pc \in {"equivalence_query", "done"} =>
          /\ Saturated
          /\ Cardinality({Signature(r) : r \in RowWords})
             <= Cardinality(target.states)

\* learn has returned an acceptor with as many states as the target, 3 or more.
C4_Witness ==
    /\ pc = "done"
    /\ Cardinality(hypothesis.states) = Cardinality(target.states)
    /\ Cardinality({Signature(r) : r \in RowWords}) >= 3

(***************************************************************************)
(* C5: at every call of construct_automaton, and so when learn returns,    *)
(* the table is closed: for every row r and every symbol a the signature   *)
(* of r.a is the signature of some row.                                    *)
(***************************************************************************)
Closed ==
    /\ Saturated
    /\ \A r \in RowWords : \A a \in target.alphabet :
          \E r2 \in RowWords : Signature(concat(r, <<a>>)) = Signature(r2)

C5_ClosedWhenHypothesized == pc \in {"equivalence_query", "done"} => Closed

\* construct_automaton is called on a table make_closed or a counterexample
\* has given three rows or more, over an alphabet of two symbols.
C5_Witness ==
    /\ pc = "equivalence_query"
    /\ Len(rows) >= 3
    /\ Cardinality(target.alphabet) = 2

(***************************************************************************)
(* C6: at every call of construct_automaton, and so when learn returns,    *)
(* the table is consistent: two rows with equal signatures have equal      *)
(* cells after every symbol, in every column.  make_closed, which runs     *)
(* after make_consistent, does not break this.                             *)
(***************************************************************************)
Consistent ==
    /\ Saturated
    /\ \A r1 \in RowWords : \A r2 \in RowWords :
          Signature(r1) = Signature(r2) =>
              \A a \in target.alphabet : \A e \in Range(columns) :
                  cells[<<concat(r1, <<a>>), e>>] = cells[<<concat(r2, <<a>>), e>>]

C6_ConsistentWhenHypothesized == pc \in {"equivalence_query", "done"} => Consistent

\* construct_automaton is called on a table with two rows of equal signature,
\* after make_consistent has added a column, over an alphabet of two symbols.
C6_Witness ==
    /\ pc = "equivalence_query"
    /\ Len(columns) > 1
    /\ \E i \in DOMAIN rows : \E j \in DOMAIN rows :
          i # j /\ Signature(rows[i]) = Signature(rows[j])
    /\ Cardinality(target.alphabet) = 2

(***************************************************************************)
(* C7: within one call of fill, each unanswered cell (r, c) or (r.a, c) is *)
(* answered with exactly one membership query and written exactly once; no *)
(* cell already filled, earlier in the same call included, is queried      *)
(* again.  Every entry of unfilled_cell costs one query and one write.     *)
(* It fails: the list is collected before anything is written, the test of *)
(* (row, column) is repeated for every symbol, and a row's cell is also    *)
(* the boundary cell of a shorter row.                                     *)
(***************************************************************************)
C7_EachCellQueriedOnce ==
    \A i \in DOMAIN unfilled_cell : \A j \in DOMAIN unfilled_cell :
        unfilled_cell[i] = unfilled_cell[j] => i = j

(***************************************************************************)
(* C8: fill idempotence: a call of fill on a table that the preceding call *)
(* of fill has saturated, no row or column having been added since, issues *)
(* no membership query and leaves every cell unchanged.  After the first   *)
(* fill every state of learn is such a table.                              *)
(***************************************************************************)
C8_FillIdempotent ==
    pc # "start" =>
        /\ Fill(rows, columns, cells).unfilled = <<>>
        /\ Fill(rows, columns, cells).cells = cells

\* The last call of fill asked queries for a table of several rows and columns.
C8_Witness ==
    /\ pc = "make_consistent"
    /\ unfilled_cell # <<>>
    /\ Len(rows) > 1
    /\ Len(columns) > 1
    /\ Saturated

(***************************************************************************)
(* C9: once a cell (prefix, suffix) holds a value, it holds the same value *)
(* in every later state of the table: no step of learn removes a cell or   *)
(* overwrites it with a different boolean.                                 *)
(***************************************************************************)
C9_CellsNeverChange ==
    [][\A k \in DOMAIN cells : k \in DOMAIN cells' /\ cells'[k] = cells[k]]_vars

\* The last call of fill wrote a same cell twice, in a table with cells from
\* earlier calls.
C9_Witness ==
    /\ Len(columns) > 1
    /\ \E i \in DOMAIN unfilled_cell : \E j \in DOMAIN unfilled_cell :
          i < j /\ unfilled_cell[i] = unfilled_cell[j]
    /\ \E k \in DOMAIN cells : ~Contains(unfilled_cell, k)

(***************************************************************************)
(* C10: canonical-state stability: two distinct row prefixes with equal    *)
(* signatures have the same state identifier, and the identifier that      *)
(* get_value_as_state returns for a given prefix is the same on every call *)
(* made during the run.                                                    *)
(* The second half fails: the identifier spells the signature, which gets  *)
(* one character longer with every column make_consistent adds.            *)
(***************************************************************************)
SameSignatureSameState(rs, cols, cs) ==
    \A r1 \in Range(rs) : \A r2 \in Range(rs) :
        r1 # r2 /\ GetValue(cols, cs, r1).ok
                /\ GetValue(cols, cs, r1).v = GetValue(cols, cs, r2).v =>
            GetValueAsState(cols, cs, r1) = GetValueAsState(cols, cs, r2)

IsPrefixOf(s, t) == Len(s) <= Len(t) /\ SubSeq(t, 1, Len(s)) = s

C10_IdentifierStable ==
    [][/\ SameSignatureSameState(rows', columns', cells')
       /\ \A w \in RowWords \cup BoundaryWords :
             GetValueAsState(columns, cells, w).ok =>
                 GetValueAsState(columns', cells', w)
                 = GetValueAsState(columns, cells, w)]_vars

\* C10 as amended: two distinct row prefixes with equal signatures have the
\* same identifier, the identifier of a prefix is the same on every call made
\* while the columns are the same, and every added column appends one
\* character to it.
C10_IdentifierStableBetweenColumns ==
    [][/\ SameSignatureSameState(rows', columns', cells')
       /\ \A w \in RowWords \cup BoundaryWords :
             GetValueAsState(columns, cells, w).ok =>
                 /\ GetValueAsState(columns', cells', w).ok
                 /\ columns' = columns =>
                       GetValueAsState(columns', cells', w)
                       = GetValueAsState(columns, cells, w)
                 /\ IsPrefixOf(GetValueAsState(columns, cells, w).v,
                               GetValueAsState(columns', cells', w).v)
                 /\ Len(GetValueAsState(columns', cells', w).v) = Len(columns')]_vars

\* Two distinct rows have one identifier of two characters or more: a column
\* has been added since their first identifiers.
C10_Witness ==
    /\ pc = "make_closed"
    /\ Len(columns) >= 2
    /\ \E i \in DOMAIN rows : \E j \in DOMAIN rows :
          /\ i < j
          /\ GetValueAsState(columns, cells, rows[i]).ok
          /\ GetValueAsState(columns, cells, rows[i])
             = GetValueAsState(columns, cells, rows[j])

(***************************************************************************)
(* C11: run returns the error of an unknown symbol whenever the word has a *)
(* symbol that is not in the acceptor's alphabet (the alphabet being       *)
(* exactly the symbols of the triples the acceptor was built from), and    *)
(* returns an accept/reject boolean only when every symbol of the word is  *)
(* in the alphabet.                                                        *)
(* The one-element vector ["ε"], the code's spelling of the empty word, is *)
(* read as a word without symbols.                                         *)
(* It fails all the same: run skips a symbol spelled "ε" anywhere in a     *)
(* word, whether or not it is in the alphabet, and the unwrap of a missing *)
(* transition panics before a later unknown symbol is looked at.           *)
(***************************************************************************)
HasUnknownSymbol(dfa, input) ==
    input # EmptyWord /\ \E i \in DOMAIN input : input[i] \notin dfa.alphabet

C11_UnknownSymbolIsError ==
    call.fn = "run" /\ call.returned =>
        /\ call.dfa.alphabet = {k[2] : k \in DOMAIN call.dfa.transitions}
        /\ HasUnknownSymbol(call.dfa, call.words[1]) => call.result.kind = "Err"
        /\ call.result.kind = "Ok" => ~HasUnknownSymbol(call.dfa, call.words[1])

(***************************************************************************)
(* C12: when a run of the target or of a hypothesis reaches a (state,      *)
(* symbol) pair without a transition, the outcome is an error value of its *)
(* own, different from the unknown-symbol error and from an accept/reject  *)
(* answer, and not an abort of the program: learn on a target that is not  *)
(* total does not abort but returns this error.                            *)
(* It fails: run unwraps the lookup of the transition (dfa.rs:66) and      *)
(* panics; fill unwraps the answer of the membership query.                *)
(***************************************************************************)
C12_MissingTransitionIsError == ~IsTotal(target) => pc # "abort"

(***************************************************************************)
(* C13: the empty word is the empty sequence only, never a symbol: run,    *)
(* concat and the learner treat a symbol spelled "ε" like any other symbol *)
(* of the alphabet.  For a call by itself: run on a word over the alphabet *)
(* of a total acceptor answers for the state reached by taking the         *)
(* transition of every symbol of the word, that of "ε" included, and       *)
(* concat of two words is the one sequence followed by the other.          *)
(* It fails: run steps over every "ε" without taking its transition, and   *)
(* concat drops an argument that is the vector ["ε"].                      *)
(***************************************************************************)
\* The state reached from state by the symbols input[i], input[i+1], ...
RECURSIVE StateAfter(_, _, _, _)
StateAfter(dfa, state, input, i) ==
    IF i > Len(input) THEN state
    ELSE StateAfter(dfa, dfa.transitions[<<state, input[i]>>], input, i + 1)

C13_EpsilonIsAnOrdinarySymbol ==
    /\ call.fn = "run" /\ call.returned /\ IsTotal(call.dfa)
       /\ Range(call.words[1]) \subseteq call.dfa.alphabet =>
          call.result = OkResult(StateAfter(call.dfa, call.dfa.init_state,
                                            call.words[1], 1)
                                 \in call.dfa.final_states)
    /\ call.fn = "concat" /\ call.returned =>
          call.result = call.words[1] \o call.words[2]

(***************************************************************************)
(* C14: concatenation identity: for every word w, concat(empty word, w) =  *)
(* w and concat(w, empty word) = w; and concat is associative on the words *)
(* the learner builds, concat(concat(r, a), e) = concat(r, concat(a, e)),  *)
(* so the cells (r.a, e) and (r, a.e) describe the same queried word.      *)
(* The empty word is the vector the code writes for it, ["ε"].             *)
(***************************************************************************)
C14_ConcatMonoid ==
    call.fn = "concat" /\ call.returned =>
        LET a == call.words[1]
            b == call.words[2]
        IN  /\ a = EmptyWord => call.result = b
            /\ b = EmptyWord => call.result = a
            /\ \A e \in CallWords :
                  concat(call.result, e) = concat(a, concat(b, e))

\* concat has returned for the empty word and a word of several symbols.
C14_Witness ==
    /\ call.fn = "concat"
    /\ call.returned
    /\ call.words[1] = EmptyWord
    /\ Len(call.words[2]) >= 2
    /\ call.result = call.words[2]

(***************************************************************************)
(* C15: in every state of a run of learn the rows only grow and the        *)
(* columns only grow (nothing is removed or reordered), the empty word is  *)
(* a row, the empty word is the first column, and add_rows / add_columns   *)
(* with a word that is there already leave rows and columns as they are    *)
(* (they do not touch the cells).                                          *)
(***************************************************************************)
TableShape ==
    /\ Contains(rows, EmptyWord)
    /\ columns # <<>>
    /\ columns[1] = EmptyWord
    /\ \A w \in Range(rows) : AddRows(rows, w) = rows
    /\ \A c \in Range(columns) : AddColumns(columns, c) = columns

C15_TableOnlyGrows ==
    /\ []TableShape
    /\ [][IsPrefixOf(rows, rows') /\ IsPrefixOf(columns, columns')]_vars

\* The rows and the columns have grown, and add_rows was called with a row that was there
\* already: the hypothesis the last counterexample refuted had two states, so
\* the table it came from had two rows, and the second is a prefix of that
\* counterexample (learn adds every prefix).
C15_Witness ==
    /\ pc = "make_consistent"
    /\ ce # <<>>
    /\ Cardinality(hypothesis.states) >= 2
    /\ Len(rows) >= 4
    /\ Len(columns) >= 2
    /\ IsPrefixOf(rows[2], ce[1])

(***************************************************************************)
(* C16: after fill returns, for any alphabet of the target (an empty one   *)
(* included), every cell (r, c) and every boundary cell (r.a, c), for r a  *)
(* row, a a symbol and c a column, is filled: get_value succeeds on every  *)
(* row and every one-symbol extension and never fails for an incomplete    *)
(* row in make_consistent, make_closed or construct_automaton.             *)
(* It fails: fill meets the cell (r, c) inside its loop over the alphabet  *)
(* only; with an empty alphabet it fills nothing, and get_states fails in  *)
(* make_closed.                                                            *)
(***************************************************************************)
C16_SaturatedAfterFill ==
    pc \in {"make_consistent", "make_closed", "equivalence_query", "done"} =>
        /\ Saturated
        /\ \A w \in RowWords \cup BoundaryWords : GetValue(columns, cells, w).ok

(***************************************************************************)
(* C17: every hypothesis construct_automaton builds during learn is a      *)
(* total deterministic acceptor: for every state q of it and every symbol  *)
(* a of the target's alphabet exactly one transition (q, a) -> q' is       *)
(* defined, with q' a state of it (all rows with the same signature give   *)
(* the same successor), so that running it on a word over the alphabet     *)
(* never meets a missing transition.                                       *)
(***************************************************************************)
TotalOver(dfa, alphabet) ==
    \A q \in dfa.states : \A a \in alphabet :
        /\ <<q, a>> \in DOMAIN dfa.transitions
        /\ dfa.transitions[<<q, a>>] \in dfa.states

C17_HypothesisTotal ==
    /\ hypothesis # NoHypothesis =>
          /\ TotalOver(hypothesis, target.alphabet)
          /\ hypothesis.alphabet = target.alphabet
          /\ \A w \in WordsUpTo(Cardinality(target.states) + 1) :
                Run(hypothesis, w).kind = "Ok"
    /\ pc \in {"equivalence_query", "done"} =>
          /\ ~ConstructPanics(rows, columns, cells)
          /\ LET tf == TransitionFunction(rows, columns, cells)
                 hypo == ConstructAutomaton(rows, columns, cells)
             IN  /\ \A m \in DOMAIN tf : \A n \in DOMAIN tf :
                       tf[m][1] = tf[n][1] => tf[m][2] = tf[n][2]
                 /\ hypo.states = Range(GetStates(rows, columns, cells).v)
                 /\ TotalOver(hypo, target.alphabet)

\* learn has returned an acceptor of three states or more over two symbols,
\* built from a table in which some rows share a signature.
C17_Witness ==
    /\ pc = "done"
    /\ Cardinality(target.alphabet) = 2
    /\ Cardinality(hypothesis.states) >= 3
    /\ Len(rows) > Cardinality(hypothesis.states)

(***************************************************************************)
(* C18: equivalence_query(target, hypothesis) enumerates the words         *)
(* breadth-first, in increasing length, from length 0 to (number of target *)
(* states + 1): it returns a word w only if target.run(w) differs from     *)
(* hypothesis.run(w) and no strictly shorter word distinguishes the two,   *)
(* and it returns no counterexample iff the two agree on every word of     *)
(* length at most (number of target states + 1).  Checked for every call   *)
(* learn makes.                                                            *)
(***************************************************************************)
\* The number of symbols of a word, the empty word being written ["ε"].
WordLength(w) == IF w = EmptyWord THEN 0 ELSE Len(w)

C18_ShortestCounterexample ==
    pc = "equivalence_query" /\ ~ConstructPanics(rows, columns, cells) =>
        LET hypo == ConstructAutomaton(rows, columns, cells)
            answer == EquivalenceQuery(hypo)
            bound == Cardinality(target.states) + 1
            differ == {v \in WordsUpTo(bound) : Run(target, v) # Run(hypo, v)}
        IN  /\ answer.kind \in {"Some", "None"}
            /\ answer.kind = "Some" =>
                  /\ answer.word \in differ
                  /\ \A v \in differ : WordLength(answer.word) <= WordLength(v)
            /\ answer.kind = "None" <=> differ = {}

\* equivalence_query is about to return a counterexample of two symbols or
\* more over an alphabet of two symbols.
C18_Witness ==
    /\ pc = "equivalence_query"
    /\ Cardinality(target.alphabet) = 2
    /\ ~ConstructPanics(rows, columns, cells)
    /\ LET answer == EquivalenceQuery(ConstructAutomaton(rows, columns, cells))
       IN  answer.kind = "Some" /\ WordLength(answer.word) >= 2

(***************************************************************************)
(* C19: every hypothesis h that construct_automaton builds during learn    *)
(* agrees with the table it was built from: for every row r and every      *)
(* column e, h.run(r.e) = cell(r, e), which is target.run(r.e); so h and   *)
(* the target agree on the empty word, and equivalence_query never returns *)
(* the empty word as a counterexample.                                     *)
(***************************************************************************)
C19_HypothesisAgreesWithTable ==
    /\ pc \in {"equivalence_query", "done"} /\ ~ConstructPanics(rows, columns, cells) =>
          LET hypo == ConstructAutomaton(rows, columns, cells)
          IN  /\ \A r \in RowWords : \A e \in Range(columns) :
                    /\ <<r, e>> \in DOMAIN cells
                    /\ Run(hypo, concat(r, e)) = OkResult(cells[<<r, e>>])
                    /\ Run(target, concat(r, e)) = OkResult(cells[<<r, e>>])
              /\ Run(hypo, EmptyWord) = Run(target, EmptyWord)
              /\ EquivalenceQuery(hypo).word # EmptyWord
    /\ ce # <<EmptyWord>>

\* A hypothesis is built from a table of four rows or more and two columns or
\* more, after a counterexample, over an alphabet of two symbols.
C19_Witness ==
    /\ pc = "equivalence_query"
    /\ ~ConstructPanics(rows, columns, cells)
    /\ ce # <<>>
    /\ Len(rows) >= 4
    /\ Len(columns) >= 2
    /\ Cardinality(target.alphabet) = 2

(***************************************************************************)
(* C20: progress of the refinement loop: whenever equivalence_query        *)
(* returns a counterexample, adding its non-empty prefixes as rows and     *)
(* running fill, make_consistent and make_closed again gives a next        *)
(* hypothesis with strictly more states (distinct row signatures) than the *)
(* one before; the same counterexample is never returned in two passes of  *)
(* the loop of learn.                                                      *)
(* In a step that builds a hypothesis, the variable hypothesis holds the   *)
(* one built in the pass before.  Every counterexample returned earlier is *)
(* a row: a counterexample that is no row is a new one.                    *)
(***************************************************************************)
C20_Progress ==
    [][pc = "equivalence_query" /\ pc' # "abort" =>
          /\ hypothesis # NoHypothesis =>
                Cardinality(hypothesis'.states) > Cardinality(hypothesis.states)
          /\ ce' # <<>> =>
                /\ ~Contains(rows, ce'[1])
                /\ ce' # ce
                /\ Contains(rows', ce'[1])]_vars

\* A second or later counterexample has been returned: the hypothesis it
\* refuted has three states, and the first hypothesis of a run, built from a
\* table of one column, has two at most.
C20_Witness ==
    /\ pc = "make_consistent"
    /\ ce # <<>>
    /\ Cardinality(hypothesis.states) >= 3

====
